---- MODULE Spec2Model ----
(***************************************************************************)
(* A model of the AI Blackbox API: the FastAPI endpoints of app/main.py,   *)
(* the Celery application of app/celery_worker.py and the two Celery tasks *)
(* of app/tasks.py, together with the Redis broker / result backend and    *)
(* the Qdrant vector store they talk to.                                   *)
(***************************************************************************)
EXTENDS Integers, Sequences, FiniteSets, TLC

\* ------------------------------------------------------------------ bounds
\* Number of producer-side calls (HTTP requests and foreign publishes).
MaxCalls == 2

\* ------------------------------------------------------------- input sets
Workers == {"w1", "w2"}

Collections == {"jobs", "profiles"}

DocIds == {"job_101", "job_102"}

\* The /internal/sync request bodies tried.
SyncRequests ==
    { <<"jobs", "job_101", "golang backend">>,
      <<"jobs", "job_101", "react frontend">>,
      <<"jobs", "job_102", "react frontend">>,
      <<"profiles", "job_101", "golang backend">> }

Texts == {"golang backend", "react frontend"}

Urls == {"http://cv.example/1.pdf"}

\* MatchRequest.limit: int = 10, the value a request without limit gets.
DefaultLimit == 10

Limits == {1, 2, DefaultLimit}

TaskIds == 1..MaxCalls

NoResult == [nil |-> TRUE]

NoInv == [id |-> 0, name |-> "none", args |-> <<>>]

NoHttp == [route |-> "none", broker |-> "unused", code |-> 0, body |-> NoResult]

\* ------------------------------------------------------ celery_worker.py
task_track_started == TRUE

\* Names registered by the @celery_app.task decorators of app/tasks.py.
Registry == {"app.tasks.parse_resume_task", "app.tasks.create_embedding_task"}

\* A task name published on the same broker by a producer that is not this
\* application (the broker URL is shared configuration).
ForeignNames == {"legacy.cleanup_task"}

VARIABLES
    api,        \* the API process: "down" or "up"
    pc,         \* per worker: "down", "idle", "get", "blocked", "post", "upsert"
    cur,        \* per worker: the invocation it executes
    channel,    \* the broker channel: a sequence of invocations
    store,      \* the result backend: task id -> [state, result]
    nextId,     \* the next fresh task id
    calls,      \* producer-side calls made so far
    http,       \* the last HTTP exchange (a search's also holds its request)
    qdrant,     \* the vector store: collection -> [exists, points]
    sent,       \* history: task id -> the task name (and collection) published with it
    hist,       \* history: task id -> [entered, returned, fetch] of its handler
                \* (fetch: how the handler's outbound calls went)
    seed        \* seed_database: [pc, i, attempted, success_count, failure_count, printed]

vars == <<api, pc, cur, channel, store, nextId, calls, http, qdrant, sent, hist, seed>>

\* --------------------------------------------------------------- tasks.py
\* embedding_model.encode(text).tolist(): the embedding, one coordinate.
encode(text) ==
    CASE text = "golang backend" -> 1
      [] text = "react frontend" -> 3
      [] OTHER -> 2

\* str(uuid.uuid5(uuid.NAMESPACE_DNS, document_id)): a name-based id.
uuid5(document_id) ==
    CASE document_id = "job_101" -> "6f1c-101"
      [] document_id = "job_102" -> "a93e-102"
      [] document_id = "golang backend" -> "c41d-7e0"
      [] document_id = "react frontend" -> "77b0-2f9"
      [] OTHER -> "0000-000"

\* qdrant_client.recreate_collection: delete the collection, create it empty.
recreate_collection(q, c) == [q EXCEPT ![c] = [exists |-> TRUE, points |-> {}]]

\* The module-level try block run on every import of app.tasks. outcome says
\* how far it got before the vector store raised.
import_tasks(q, outcome) ==
    CASE outcome = "ok" -> recreate_collection(recreate_collection(q, "jobs"), "profiles")
      [] outcome = "second_raises" -> recreate_collection(q, "jobs")
      [] OTHER -> q

ImportOutcomes == {"ok", "second_raises", "first_raises"}

\* --- parse_resume_task ---------------------------------------------------
\* What requests.get(resume_url), raise_for_status, fitz.open and the text
\* join of tasks.py lines 78-81 can do: go through, or raise one of these.
FetchErrors == {"ConnectionError", "HTTPError 404", "FileDataError"}

\* requests.get is called without a timeout: the remote server may also never
\* answer, and then the call does not return.
FetchOutcomes == {"ok", "never_responds"} \cup FetchErrors

NameTok == "{\"name\":"

\* Generated texts of the inference endpoint, as token sequences.
RawOutputs ==
    { <<"no tool call">>,
      <<"[TOOL_CALLS]", "[", NameTok, "args_valid", "}", "]">>,
      <<NameTok, "args_valid", "}">> }

\* Outcomes of requests.post(HF_API_URL, ..., timeout=90) + raise_for_status.
HfErrors == {"ReadTimeout", "HTTPError 503"}

\* str.find: the 0-based index of the first occurrence, -1 when there is none.
find(raw, tok) ==
    IF \E i \in 1..Len(raw) : raw[i] = tok
    THEN (CHOOSE i \in 1..Len(raw) : raw[i] = tok /\ \A j \in 1..(i - 1) : raw[j] # tok) - 1
    ELSE -1

\* json.loads on a token sequence: an object, an array of one object, or a
\* decode error (trailing tokens are "Extra data").
json_loads(toks) ==
    IF Len(toks) = 3 /\ toks[1] = NameTok /\ toks[3] = "}"
    THEN [ok |-> TRUE, kind |-> "object", arguments |-> toks[2]]
    ELSE IF Len(toks) = 5 /\ toks[1] = "[" /\ toks[2] = NameTok /\ toks[4] = "}" /\ toks[5] = "]"
    THEN [ok |-> TRUE, kind |-> "array", arguments |-> toks[3]]
    ELSE [ok |-> FALSE, kind |-> "none", arguments |-> "none"]

\* ResumeDetails(**arguments): pydantic validation of the three lists.
ResumeDetailsValid(arguments) == arguments = "args_valid"

\* Step 4 of parse_resume_task: the inner try block on raw_output.
extract(raw_output) ==
    LET json_str_start == find(raw_output, NameTok)
        failed == [error |-> "Failed to parse model output.", raw_output |-> raw_output]
    IN  IF json_str_start # -1
        THEN LET tool_call_json ==
                     json_loads(SubSeq(raw_output, json_str_start + 1, Len(raw_output)))
             IN  IF ~tool_call_json.ok THEN failed
                 \* tool_call_json[0] on a dict raises KeyError
                 ELSE IF tool_call_json.kind # "array" THEN failed
                 ELSE IF ~ResumeDetailsValid(tool_call_json.arguments) THEN failed
                 ELSE [model_dump_json |-> tool_call_json.arguments]
        ELSE [error |-> "Function call JSON not found in model output."]

\* The outer except of parse_resume_task: the exception becomes a returned dict.
parse_error(e) == [error |-> e]

\* --- create_embedding_task -----------------------------------------------
\* Mutant of PointStruct: the point id is derived from the text, not the document id.
PointStruct_id_from_text(document_id, text_content) ==
    [id |-> uuid5(text_content), vector |-> encode(text_content), original_id |-> document_id]

\* models.PointStruct(id=point_id, vector=vector, payload={"original_id": ...})
PointStruct(document_id, text_content) ==
    [id |-> uuid5(document_id), vector |-> encode(text_content), original_id |-> document_id]

\* Mutant of upsert: the call returns before the write is applied (wait=False).
upsert_no_wait(q, c, p) == q

\* Mutant of upsert: the collection is rewritten with the one point.
upsert_replace_all(q, c, p) == [q EXCEPT ![c].points = {p}]

\* qdrant_client.upsert(collection_name, points=[p], wait=True) on an existing
\* collection: the point with p's id is replaced, or p is added.
upsert(q, c, p) ==
    [q EXCEPT ![c].points = {x \in q[c].points : x.id # p.id} \cup {p}]

EmbedOutcomes == {"ok", "encode_raises", "store_unreachable"}

\* What create_embedding_task returns, given how its calls went.
create_embedding_result(q, c, document_id, outcome) ==
    IF outcome = "encode_raises" THEN [error |-> "RuntimeError"]
    ELSE IF outcome = "store_unreachable" THEN [error |-> "ResponseHandlingException"]
    ELSE IF ~q[c].exists THEN [error |-> "UnexpectedResponse 404"]
    ELSE [status |-> "success", documentId |-> document_id]

\* --- the vector store's search -------------------------------------------
\* Similarity of two embeddings (cosine in the store; here: closeness).
score(qv, v) == 4 - (IF qv >= v THEN qv - v ELSE v - qv)

RECURSIVE by_score_desc(_)
\* The hits of a set, best first.
by_score_desc(hits) ==
    IF hits = {} THEN <<>>
    ELSE LET best == CHOOSE h \in hits : \A g \in hits : h.score >= g.score
         IN  <<best>> \o by_score_desc(hits \ {best})

\* Mutant of search: the request's limit is not passed on, the store's own applies.
search_default_limit(q, c, query_vector, limit) ==
    LET hits == {[id |-> p.id, score |-> score(query_vector, p.vector)] : p \in q[c].points}
        ranked == by_score_desc(hits)
    IN  SubSeq(ranked, 1, IF DefaultLimit < Len(ranked) THEN DefaultLimit ELSE Len(ranked))

\* qdrant_client.search(collection_name, query_vector, limit): the limit
\* nearest points of the collection, as ScoredPoints, best first.
search(q, c, query_vector, limit) ==
    LET hits == {[id |-> p.id, score |-> score(query_vector, p.vector)] : p \in q[c].points}
        ranked == by_score_desc(hits)
    IN  SubSeq(ranked, 1, IF limit < Len(ranked) THEN limit ELSE Len(ranked))

\* Mutant of ranked_results: the hits are listed worst first.
ranked_results_reversed(search_result) ==
    [i \in 1..Len(search_result) |->
        [id |-> search_result[Len(search_result) + 1 - i].id,
         score |-> search_result[Len(search_result) + 1 - i].score]]

\* ranked_results = [{"id": hit.id, "score": hit.score} for hit in search_result]
ranked_results(search_result) ==
    [i \in 1..Len(search_result) |-> [id |-> search_result[i].id, score |-> search_result[i].score]]

\* ------------------------------------------------- Celery: producer side
\* Mutant of delay: the message is written before the broker's failure shows.
delay_partial(name, args, reachable) ==
    /\ channel' = Append(channel, [id |-> nextId, name |-> name, args |-> args])
    /\ sent' = [sent EXCEPT ![nextId] =
           [name |-> name, collection |-> IF Len(args) = 3 THEN args[1] ELSE "none"]]
    /\ nextId' = nextId + 1

\* Mutant of delay: the task id is not renewed between calls.
delay_stale_id(name, args, reachable) ==
    IF reachable
    THEN /\ channel' = Append(channel, [id |-> nextId, name |-> name, args |-> args])
         /\ sent' = [sent EXCEPT ![nextId] =
                [name |-> name, collection |-> IF Len(args) = 3 THEN args[1] ELSE "none"]]
         /\ nextId' = nextId
    ELSE UNCHANGED <<channel, sent, nextId>>

\* Task.delay(*args): with the broker reachable, one message with a fresh
\* uuid4 task id is published; otherwise the publish raises and nothing is
\* written.
delay(name, args, reachable) ==
    IF reachable
    THEN /\ channel' = Append(channel, [id |-> nextId, name |-> name, args |-> args])
         /\ sent' = [sent EXCEPT ![nextId] = [name |-> name, collection |-> IF Len(args) = 3 THEN args[1] ELSE "none"]]
         /\ nextId' = nextId + 1
    ELSE UNCHANGED <<channel, sent, nextId>>

\* --------------------------------------------------- Celery: worker side
\* Mutant of ack: the message stays in the channel and is delivered again.
ack_never(ch) == ch

\* The message is acknowledged when the worker takes it (acks_late is off).
ack(ch) == Tail(ch)

\* Mutant of mark_as_started: the record is completed when the task starts.
mark_as_started_done(s, id) == [s EXCEPT ![id] = [state |-> "SUCCESS", result |-> NoResult]]

\* With task_track_started the worker records STARTED before the handler runs.
mark_as_started(s, id) ==
    IF task_track_started
    THEN [s EXCEPT ![id] = [state |-> "STARTED", result |-> NoResult]]
    ELSE s

\* The worker's record of a handler's outcome.
mark_as_done(s, id, outcome) ==
    [s EXCEPT ![id] =
        IF outcome.raised
        THEN [state |-> "FAILURE", result |-> [exc |-> outcome.value]]
        ELSE [state |-> "SUCCESS", result |-> outcome.value]]

\* Mutant of on_unknown_task: the message is dropped without a record.
on_unknown_task_dropped(s, id) == s

\* A message whose task name is not registered: recorded as failed.
on_unknown_task(s, id) ==
    [s EXCEPT ![id] = [state |-> "FAILURE", result |-> [exc |-> "NotRegistered"]]]

\* Mutant of returned: without the except clauses an error leaves the handler
\* as an exception.
raised_instead(value) == [raised |-> "error" \in DOMAIN value, value |-> value]

\* The handler's return statement: it ends normally with this value.
returned(value) == [raised |-> FALSE, value |-> value]

\* ---------------------------------------------------------- seed_script.py
\* The documentId of each entry of JOBS_DATA, in list order.
JOBS_DATA ==
    <<"job_101", "job_102", "job_103", "job_104", "job_105",
      "job_106", "job_107", "job_108", "job_109", "job_110">>

\* How requests.post(API_URL, json=job, timeout=10) with raise_for_status goes.
PostErrors == {"ConnectionError", "ReadTimeout", "HTTPError 500"}

PostOutcomes == {"200 OK"} \cup PostErrors

\* The script is not running.
NotSeeding ==
    [pc |-> "off", i |-> 1, attempted |-> <<>>, success_count |-> 0, failure_count |-> 0,
     printed |-> "none"]

\* seed_database has set its counters and is at the head of the for loop.
SeedingStarted == [NotSeeding EXCEPT !.pc = "loop"]

\* Mutant of loop_body: a failed request ends the loop.
loop_body_stop_on_failure(sd, outcome) ==
    IF outcome = "200 OK"
    THEN [sd EXCEPT !.i = sd.i + 1,
                    !.attempted = Append(sd.attempted, JOBS_DATA[sd.i]),
                    !.success_count = sd.success_count + 1,
                    !.printed = "Success"]
    ELSE [sd EXCEPT !.pc = "done",
                    !.attempted = Append(sd.attempted, JOBS_DATA[sd.i]),
                    !.failure_count = sd.failure_count + 1,
                    !.printed = outcome]

\* One pass of the for loop over JOBS_DATA: the job at position i is posted;
\* a RequestException is caught and counted.
loop_body(sd, outcome) ==
    IF outcome = "200 OK"
    THEN [sd EXCEPT !.i = sd.i + 1,
                    !.attempted = Append(sd.attempted, JOBS_DATA[sd.i]),
                    !.success_count = sd.success_count + 1,
                    !.printed = "Success"]
    ELSE [sd EXCEPT !.i = sd.i + 1,
                    !.attempted = Append(sd.attempted, JOBS_DATA[sd.i]),
                    !.failure_count = sd.failure_count + 1,
                    !.printed = outcome]

\* ------------------------------------------------------------------ Init
Init ==
    /\ api = "down"
    /\ pc = [w \in Workers |-> "down"]
    /\ cur = [w \in Workers |-> NoInv]
    /\ channel = <<>>
    /\ store = [t \in TaskIds |-> [state |-> "PENDING", result |-> NoResult]]
    /\ nextId = 1
    /\ calls = 0
    /\ http = NoHttp
    /\ qdrant = [c \in Collections |-> [exists |-> FALSE, points |-> {}]]
    /\ sent = [t \in TaskIds |-> [name |-> "none", collection |-> "none"]]
    /\ hist = [t \in TaskIds |-> [entered |-> FALSE, returned |-> FALSE, fetch |-> "none"]]
    /\ seed = NotSeeding

\* ------------------------------------------------------- process starts
\* uvicorn imports app.main, which imports app.tasks (main.py line 4).
start_api(outcome) ==
    /\ api = "down"
    /\ api' = "up"
    /\ qdrant' = import_tasks(qdrant, outcome)
    /\ UNCHANGED <<pc, cur, channel, store, nextId, calls, http, sent, hist, seed>>

\* A worker process loads celery_app and imports app.tasks.
start_worker(w, outcome) ==
    /\ pc[w] = "down"
    /\ pc' = [pc EXCEPT ![w] = "idle"]
    /\ qdrant' = import_tasks(qdrant, outcome)
    /\ UNCHANGED <<api, cur, channel, store, nextId, calls, http, sent, hist, seed>>

\* ------------------------------------------------------------ main.py
submit_resume_parsing(resumeUrl, reachable) ==
    /\ api = "up"
    /\ calls < MaxCalls
    /\ calls' = calls + 1
    /\ delay("app.tasks.parse_resume_task", <<resumeUrl>>, reachable)
    /\ http' = IF reachable
               THEN [route |-> "/v1/parsing/resume", broker |-> "reachable", code |-> 200,
                     body |-> [taskId |-> nextId, status |-> "processing"]]
               ELSE [route |-> "/v1/parsing/resume", broker |-> "unreachable", code |-> 500,
                     body |-> [detail |-> "Internal Server Error"]]
    /\ UNCHANGED <<api, pc, cur, store, qdrant, hist, seed>>

sync_document(collection, documentId, textContent, reachable) ==
    /\ api = "up"
    /\ calls < MaxCalls
    /\ calls' = calls + 1
    /\ delay("app.tasks.create_embedding_task", <<collection, documentId, textContent>>, reachable)
    /\ http' = IF reachable
               THEN [route |-> "/internal/sync", broker |-> "reachable", code |-> 200,
                     body |-> [taskId |-> nextId, status |-> "syncing"]]
               ELSE [route |-> "/internal/sync", broker |-> "unreachable", code |-> 500,
                     body |-> [detail |-> "Internal Server Error"]]
    /\ UNCHANGED <<api, pc, cur, store, qdrant, hist, seed>>

SearchOutcomes == {"ok", "encode_raises", "store_unreachable"}

\* The exception raised inside find_matches' try block, if any.
search_exception(q, collection, outcome) ==
    IF outcome = "encode_raises" THEN "RuntimeError"
    ELSE IF outcome = "store_unreachable" THEN "ResponseHandlingException"
    ELSE IF ~q[collection].exists THEN "UnexpectedResponse 404"
    ELSE "none"

\* Mutant of search_error: the exception's text is passed on to the caller.
search_error_leaky(e) == [detail |-> e]

\* except Exception as e: raise HTTPException(status_code=500, detail=...)
search_error(e) == [detail |-> "Internal server error during search."]

find_matches(collection, textContent, limit, outcome) ==
    /\ api = "up"
    /\ calls < MaxCalls
    /\ calls' = calls + 1
    /\ http' = IF outcome = "ok" /\ qdrant[collection].exists
               THEN [route |-> "/v1/matching/search", broker |-> "unused", code |-> 200,
                     body |-> [rankedResults |->
                         ranked_results(search(qdrant, collection, encode(textContent), limit))],
                     request |-> [collection |-> collection, limit |-> limit, fault |-> outcome]]
               ELSE [route |-> "/v1/matching/search", broker |-> "unused", code |-> 500,
                     body |-> search_error(search_exception(qdrant, collection, outcome)),
                     request |-> [collection |-> collection, limit |-> limit, fault |-> outcome]]
    /\ UNCHANGED <<api, pc, cur, channel, store, nextId, qdrant, sent, hist, seed>>

\* Another producer on the same broker publishes a task this application
\* does not define.
foreign_publish(name) ==
    /\ calls < MaxCalls
    /\ calls' = calls + 1
    /\ delay(name, <<>>, TRUE)
    /\ UNCHANGED <<api, pc, cur, store, http, qdrant, hist, seed>>

\* ------------------------------------------------------ the worker loop
\* Mutant of can_claim: a worker takes messages while a handler is running.
can_claim_while_running(w) == pc[w] # "down"

\* A worker waits for a message only when it executes nothing (spec 4.2,
\* IDLE -> CLAIMING).
can_claim(w) == pc[w] = "idle"

worker_claim(w) ==
    /\ can_claim(w)
    /\ channel # <<>>
    /\ LET inv == Head(channel)
       IN  /\ channel' = ack(channel)
           /\ IF inv.name \notin Registry
              THEN /\ store' = on_unknown_task(store, inv.id)
                   /\ UNCHANGED <<pc, cur, hist>>
              ELSE /\ store' = mark_as_started(store, inv.id)
                   /\ cur' = [cur EXCEPT ![w] = inv]
                   /\ pc' = [pc EXCEPT ![w] =
                          IF inv.name = "app.tasks.parse_resume_task" THEN "get" ELSE "upsert"]
                   /\ hist' = [hist EXCEPT ![inv.id].entered = TRUE]
    /\ UNCHANGED <<api, nextId, calls, http, qdrant, sent, seed>>

\* The handler has returned (or raised): the worker records the outcome and
\* waits for the next message.
worker_record(w, outcome, fetch) ==
    /\ store' = mark_as_done(store, cur[w].id, outcome)
    /\ hist' = [hist EXCEPT ![cur[w].id].returned = TRUE, ![cur[w].id].fetch = fetch]
    /\ pc' = [pc EXCEPT ![w] = "idle"]
    /\ cur' = [cur EXCEPT ![w] = NoInv]

\* parse_resume_task up to the inference call (tasks.py lines 76-89).
parse_resume_task_get(w, fetch) ==
    /\ pc[w] = "get"
    /\ IF fetch \in FetchErrors
       THEN worker_record(w, returned(parse_error(fetch)), fetch)
       ELSE /\ pc' = [pc EXCEPT ![w] = IF fetch = "ok" THEN "post" ELSE "blocked"]
            /\ hist' = [hist EXCEPT ![cur[w].id].fetch = fetch]
            /\ UNCHANGED <<cur, store>>
    /\ UNCHANGED <<api, channel, nextId, calls, http, qdrant, sent, seed>>

HfResponses ==
    {[ok |-> FALSE, e |-> x, raw |-> <<>>] : x \in HfErrors}
        \cup {[ok |-> TRUE, e |-> "none", raw |-> r] : r \in RawOutputs}

\* parse_resume_task from the inference call on (tasks.py lines 91-119).
parse_resume_task_post(w, hf_response) ==
    /\ pc[w] = "post"
    /\ worker_record(w, returned(IF hf_response.ok THEN extract(hf_response.raw)
                                 ELSE parse_error(hf_response.e)), "ok")
    /\ UNCHANGED <<api, channel, nextId, calls, http, qdrant, sent, seed>>

create_embedding_task(w, outcome) ==
    /\ pc[w] = "upsert"
    /\ LET collection_name == cur[w].args[1]
           document_id == cur[w].args[2]
           text_content == cur[w].args[3]
           result == create_embedding_result(qdrant, collection_name, document_id, outcome)
       IN  /\ qdrant' = IF "error" \in DOMAIN result THEN qdrant
                        ELSE upsert(qdrant, collection_name, PointStruct(document_id, text_content))
           /\ worker_record(w, returned(result), outcome)
    /\ UNCHANGED <<api, channel, nextId, calls, http, sent, seed>>

worker_step(w) ==
    \/ worker_claim(w)
    \/ \E f \in FetchOutcomes : parse_resume_task_get(w, f)
    \/ \E r \in HfResponses : parse_resume_task_post(w, r)
    \/ \E o \in EmbedOutcomes : create_embedding_task(w, o)

Next ==
    \/ \E o \in ImportOutcomes : start_api(o)
    \/ \E w \in Workers, o \in ImportOutcomes : start_worker(w, o)
    \/ \E u \in Urls, b \in BOOLEAN : submit_resume_parsing(u, b)
    \/ \E r \in SyncRequests, b \in BOOLEAN : sync_document(r[1], r[2], r[3], b)
    \/ \E c \in Collections, t \in Texts, k \in Limits, o \in SearchOutcomes : find_matches(c, t, k, o)
    \/ \E n \in ForeignNames : foreign_publish(n)
    \/ \E w \in Workers : worker_step(w)

Spec == Init /\ [][Next]_vars

\* The worker processes are scheduled: a worker that can take a step takes one.
FairSpec == Spec /\ \A w \in Workers : WF_vars(worker_step(w))

\* A vector store that already holds points when the API answers searches:
\* every collection is missing, or holds at most one point per document.
SeedPoints ==
    {ps \in SUBSET {PointStruct(d, t) : d \in DocIds, t \in Texts} :
        \A p1 \in ps, p2 \in ps : p1.id = p2.id => p1 = p2}

SearchInit ==
    /\ api = "up"
    /\ pc = [w \in Workers |-> "idle"]
    /\ cur = [w \in Workers |-> NoInv]
    /\ channel = <<>>
    /\ store = [t \in TaskIds |-> [state |-> "PENDING", result |-> NoResult]]
    /\ nextId = 1
    /\ calls = 0
    /\ http = NoHttp
    /\ qdrant \in [Collections ->
           {[exists |-> TRUE, points |-> ps] : ps \in SeedPoints}
               \cup {[exists |-> FALSE, points |-> {}]}]
    /\ sent = [t \in TaskIds |-> [name |-> "none", collection |-> "none"]]
    /\ hist = [t \in TaskIds |-> [entered |-> FALSE, returned |-> FALSE, fetch |-> "none"]]
    /\ seed = NotSeeding

SearchNext ==
    \E c \in Collections, t \in Texts, k \in Limits, o \in SearchOutcomes : find_matches(c, t, k, o)

\* The search endpoint alone, over every seeded store.
SearchSpec == SearchInit /\ [][SearchNext]_vars

\* ----------------------------------------------------- the seeding script
seed_database_iteration(outcome) ==
    /\ seed.pc = "loop"
    /\ seed.i <= Len(JOBS_DATA)
    /\ seed' = loop_body(seed, outcome)
    /\ UNCHANGED <<api, pc, cur, channel, store, nextId, calls, http, qdrant, sent, hist>>

\* The loop is exhausted: the totals are printed and the function returns.
seed_database_return ==
    /\ seed.pc = "loop"
    /\ seed.i > Len(JOBS_DATA)
    /\ seed' = [seed EXCEPT !.pc = "done", !.printed = "Seeding complete"]
    /\ UNCHANGED <<api, pc, cur, channel, store, nextId, calls, http, qdrant, sent, hist>>

SeedInit ==
    /\ api = "down"
    /\ pc = [w \in Workers |-> "down"]
    /\ cur = [w \in Workers |-> NoInv]
    /\ channel = <<>>
    /\ store = [t \in TaskIds |-> [state |-> "PENDING", result |-> NoResult]]
    /\ nextId = 1
    /\ calls = 0
    /\ http = NoHttp
    /\ qdrant = [c \in Collections |-> [exists |-> FALSE, points |-> {}]]
    /\ sent = [t \in TaskIds |-> [name |-> "none", collection |-> "none"]]
    /\ hist = [t \in TaskIds |-> [entered |-> FALSE, returned |-> FALSE, fetch |-> "none"]]
    /\ seed = SeedingStarted

SeedNext ==
    \/ \E o \in PostOutcomes : seed_database_iteration(o)
    \/ seed_database_return

\* One run of seed_script.py; what the API does with the requests is not its concern.
SeedSpec == SeedInit /\ [][SeedNext]_vars

\* Longest generated text tried, in tokens.
MaxRawLen == 5

RawTokens == {"[TOOL_CALLS]", "[", NameTok, "args_valid", "args_invalid", "}", "]"}

\* Every generated text of up to MaxRawLen tokens.
ModelOutputs == UNION {[1..n -> RawTokens] : n \in 1..MaxRawLen}

\* Worker w1 has downloaded the resume of task 1 and is about to call the
\* inference endpoint.
ExtractInit ==
    /\ api = "up"
    /\ pc = [w \in Workers |-> IF w = "w1" THEN "post" ELSE "idle"]
    /\ cur = [w \in Workers |->
                 IF w = "w1"
                 THEN [id |-> 1, name |-> "app.tasks.parse_resume_task",
                       args |-> <<"http://cv.example/1.pdf">>]
                 ELSE NoInv]
    /\ channel = <<>>
    /\ store = [t \in TaskIds |->
                   IF t = 1 THEN [state |-> "STARTED", result |-> NoResult]
                   ELSE [state |-> "PENDING", result |-> NoResult]]
    /\ nextId = 2
    /\ calls = 1
    /\ http = [route |-> "/v1/parsing/resume", broker |-> "reachable", code |-> 200,
               body |-> [taskId |-> 1, status |-> "processing"]]
    /\ qdrant = [c \in Collections |-> [exists |-> TRUE, points |-> {}]]
    /\ sent = [t \in TaskIds |->
                  IF t = 1 THEN [name |-> "app.tasks.parse_resume_task", collection |-> "none"]
                  ELSE [name |-> "none", collection |-> "none"]]
    /\ hist = [t \in TaskIds |->
                  IF t = 1 THEN [entered |-> TRUE, returned |-> FALSE, fetch |-> "ok"]
                  ELSE [entered |-> FALSE, returned |-> FALSE, fetch |-> "none"]]
    /\ seed = NotSeeding

ExtractNext ==
    \E raw \in ModelOutputs :
        parse_resume_task_post("w1", [ok |-> TRUE, e |-> "none", raw |-> raw])

\* The output parsing of parse_resume_task alone, over every generated text.
ExtractSpec == ExtractInit /\ [][ExtractNext]_vars

\* ------------------------------------------------------------ vocabulary
ParseTask == "app.tasks.parse_resume_task"

EmbedTask == "app.tasks.create_embedding_task"

Terminal == {"SUCCESS", "FAILURE"}

AsyncRoutes == {"/v1/parsing/resume", "/internal/sync"}

rank(state) ==
    CASE state = "PENDING" -> 0
      [] state = "STARTED" -> 1
      [] OTHER -> 2

\* The points of collection c that carry document d.
PointsOf(q, c, d) == {p \in q[c].points : p.original_id = d}

SyncSuccess(d) == [status |-> "success", documentId |-> d]

\* A step in which /v1/parsing/resume or /internal/sync was called (a foreign
\* publish also counts as a call, but answers nothing).
AsyncCall ==
    /\ calls' = calls + 1
    /\ http'.route \in AsyncRoutes
    /\ ~(Len(channel') > Len(channel) /\ channel'[Len(channel')].name \notin Registry)

\* ---------------------------------------------------------------- claims

\* C1: every parse_resume_task invocation whose download fails (unreachable
\* URL, non-2xx status, malformed document) ends in state FAILURE. Stated as
\* the claim makes it; the handler's own except clause returns a dict, which
\* the worker records as SUCCESS.
C1_FetchFailureIsFailure ==
    \A t \in TaskIds :
        (sent[t].name = ParseTask /\ hist[t].fetch \in FetchErrors /\ hist[t].returned)
            => store[t].state = "FAILURE"

\* C2: a collection never holds two points for one document, and right after
\* a successful create_embedding_task execution for (c, d) it holds exactly
\* one point for d.
C2_OnePointPerDocument ==
    [][ /\ \A c \in Collections, d \in DocIds : Cardinality(PointsOf(qdrant', c, d)) <= 1
        /\ \A w \in Workers :
              (pc[w] = "upsert" /\ pc'[w] = "idle"
                  /\ store'[cur[w].id].result = SyncSuccess(cur[w].args[2]))
              => Cardinality(PointsOf(qdrant', cur[w].args[1], cur[w].args[2])) = 1 ]_vars

\* C2 witness: two executions for the same (c, d) succeeded and c holds one point for d.
C2_Witness ==
    \E t1 \in TaskIds, t2 \in TaskIds, d \in DocIds :
        /\ t1 # t2
        /\ sent[t1].collection = sent[t2].collection
        /\ store[t1] = [state |-> "SUCCESS", result |-> SyncSuccess(d)]
        /\ store[t2] = [state |-> "SUCCESS", result |-> SyncSuccess(d)]
        /\ Cardinality(PointsOf(qdrant, sent[t1].collection, d)) = 1

\* C3: a submission is answered with a task id without the handler having
\* run, and a task of the application whose handler has not run to completion
\* is PENDING or STARTED.
C3_NotTerminalBeforeHandlerDone ==
    [][ /\ \A t \in TaskIds :
              (sent'[t].name \in Registry /\ ~hist'[t].returned)
                  => store'[t].state \in {"PENDING", "STARTED"}
        /\ (AsyncCall /\ http'.code = 200)
              => /\ ~hist'[http'.body.taskId].entered
                 /\ store'[http'.body.taskId].state = "PENDING" ]_vars

\* C3 witness: the task whose id was just returned is STARTED, its handler still running.
C3_Witness ==
    /\ http.code = 200
    /\ http.route \in AsyncRoutes
    /\ store[http.body.taskId].state = "STARTED"
    /\ ~hist[http.body.taskId].returned

\* C4: a task record only moves forward along PENDING < STARTED < {SUCCESS,
\* FAILURE}, and a SUCCESS or FAILURE record never changes again.
C4_StateMonotonic ==
    [][ \A t \in TaskIds :
            /\ rank(store'[t].state) >= rank(store[t].state)
            /\ store[t].state \in Terminal => store'[t] = store[t] ]_vars

\* C4 witness: one record is terminal while a worker executes another task.
C4_Witness ==
    \E t1 \in TaskIds, t2 \in TaskIds :
        /\ store[t1].state \in Terminal
        /\ store[t2].state = "STARTED"
        /\ \E w \in Workers : cur[w].id = t2

\* C5: once an embedding task for d in c has finished with {status: success,
\* documentId: d}, the point for d is present in c in every later state.
\* Stated as the claim makes it; a later import of app.tasks recreates c.
C5_SyncedPointStays ==
    \A t \in TaskIds, d \in DocIds :
        (sent[t].name = EmbedTask /\ store[t] = [state |-> "SUCCESS", result |-> SyncSuccess(d)])
            => PointsOf(qdrant, sent[t].collection, d) # {}

\* C6: every invocation a worker has started executing eventually reaches a
\* terminal state. Stated as the claim makes it; the resume download has no
\* timeout.
C6_ClaimedEventuallyTerminal ==
    \A t \in TaskIds : hist[t].entered ~> (store[t].state \in Terminal)

\* C7: a submission made while the broker is unreachable is answered with an
\* error and no task id, and leaves the channel and the result store as they were.
C7_UnreachableBrokerPublishesNothing ==
    [][ (AsyncCall /\ http'.broker = "unreachable")
            => /\ http'.code >= 400
               /\ "taskId" \notin DOMAIN http'.body
               /\ channel' = channel
               /\ store' = store ]_vars

\* C7 witness: a submission failed on the broker while a message was queued.
C7_Witness ==
    /\ http.broker = "unreachable"
    /\ http.code = 500
    /\ channel # <<>>

\* C8: a submission that returns appends exactly one invocation, answers 200
\* with that invocation's id and the route's fixed status, and the id was
\* never returned before.
C8_OneFreshInvocationPerSubmit ==
    [][ (AsyncCall /\ http'.code = 200)
            => /\ Len(channel') = Len(channel) + 1
               /\ SubSeq(channel', 1, Len(channel)) = channel
               /\ channel'[Len(channel')].id = http'.body.taskId
               /\ channel'[Len(channel')].name =
                      (IF http'.route = "/v1/parsing/resume" THEN ParseTask ELSE EmbedTask)
               /\ http'.body.status =
                      (IF http'.route = "/v1/parsing/resume" THEN "processing" ELSE "syncing")
               /\ sent[http'.body.taskId].name = "none" ]_vars

\* C8 witness: the second of two answered submissions.
C8_Witness ==
    /\ http.code = 200
    /\ http.route \in AsyncRoutes
    /\ http.body.taskId = 2
    /\ sent[1].name \in Registry

\* C9: when a worker takes an invocation whose task name is not registered,
\* no handler runs for it, its record becomes FAILURE with the not-registered
\* error, and the worker is free for the next message.
C9_UnknownTaskFailsWorkerContinues ==
    [][ /\ \A t \in TaskIds : sent'[t].name \in ForeignNames => ~hist'[t].entered
        /\ (channel # <<>> /\ Head(channel).name \notin Registry /\ Len(channel') < Len(channel))
              => /\ store'[Head(channel).id] =
                        [state |-> "FAILURE", result |-> [exc |-> "NotRegistered"]]
                 /\ pc' = pc
                 /\ cur' = cur ]_vars

\* C9 witness: an unknown task has failed and a later message has been processed.
C9_Witness ==
    /\ sent[1].name \in ForeignNames
    /\ store[1].state = "FAILURE"
    /\ sent[2].name \in Registry
    /\ store[2].state = "SUCCESS"

\* C10: the rankedResults of a successful search are in non-increasing order of score.
C10_RankedByScore ==
    (http.route = "/v1/matching/search" /\ http.code = 200)
        => \A i \in 1..(Len(http.body.rankedResults) - 1) :
               http.body.rankedResults[i].score >= http.body.rankedResults[i + 1].score

\* C10 witness: a search answered with two results of different score.
C10_Witness ==
    /\ http.route = "/v1/matching/search"
    /\ http.code = 200
    /\ Len(http.body.rankedResults) = 2
    /\ http.body.rankedResults[1].score > http.body.rankedResults[2].score

\* C11: a search with limit k on an existing collection returns at most k
\* results and at most as many as the collection has points; a request without
\* limit gets k = 10; on an empty collection the answer is 200 with an empty list.
C11_AtMostLimit ==
    http.route = "/v1/matching/search"
        => /\ http.code = 200
                 => /\ Len(http.body.rankedResults) <= http.request.limit
                    /\ Len(http.body.rankedResults)
                           <= Cardinality(qdrant[http.request.collection].points)
           /\ (http.request.fault = "ok" /\ qdrant[http.request.collection].exists
                   /\ qdrant[http.request.collection].points = {})
                 => (http.code = 200 /\ http.body.rankedResults = <<>>)

\* C11 witness: limit 1 on a collection of two points, one result returned.
C11_Witness ==
    /\ http.route = "/v1/matching/search"
    /\ http.code = 200
    /\ http.request.limit = 1
    /\ Cardinality(qdrant[http.request.collection].points) = 2
    /\ Len(http.body.rankedResults) = 1

\* C12: when the embedding step or the store query of a search fails, the
\* answer is 500 with the one fixed body, whatever the failure was.
C12_GenericSearchError ==
    (http.route = "/v1/matching/search"
         /\ (http.request.fault # "ok" \/ ~qdrant[http.request.collection].exists))
        => /\ http.code = 500
           /\ http.body = [detail |-> "Internal server error during search."]

\* C12 witness: a search that failed in the embedding step.
C12_Witness ==
    /\ http.route = "/v1/matching/search"
    /\ http.request.fault = "encode_raises"
    /\ http.code = 500

\* The generated text ends with the documented tool call
\* [{"name": ..., "arguments": {...}}] and its arguments satisfy the schema.
WellFormedValid(raw) ==
    /\ Len(raw) >= 5
    /\ SubSeq(raw, Len(raw) - 4, Len(raw)) = <<"[", NameTok, "args_valid", "}", "]">>
    /\ \A j \in 1..(Len(raw) - 4) : raw[j] # NameTok

\* C13: when the generated text holds a well-formed tool call with valid
\* arguments, parse_resume_task returns the validated fields (it does not end
\* in the parse-failure result). Stated as the claim makes it; the text is cut
\* at '{"name":', so json.loads never yields the list that [0] is applied to.
C13_ValidFragmentYieldsFields ==
    \A t \in TaskIds :
        (hist[t].returned /\ "raw_output" \in DOMAIN store[t].result)
            => ~WellFormedValid(store[t].result.raw_output)

\* C14: when the generated text holds no tool call, or the tool call fails to
\* parse or to validate, the task ends in state FAILURE. Stated as the claim
\* makes it; the handler returns a dict, recorded as SUCCESS (see C1).
C14_BadFragmentIsFailure ==
    \A t \in TaskIds :
        (hist[t].returned /\ "error" \in DOMAIN store[t].result
            /\ store[t].result.error \in {"Function call JSON not found in model output.",
                                          "Failed to parse model output."})
            => store[t].state = "FAILURE"

\* C15: create_embedding_task produces {status: success, documentId: d} only
\* with the upsert applied: after the step that produces it, collection c
\* holds the point whose id is derived from d, with payload original_id = d;
\* when encoding or the upsert failed, no success result is produced.
C15_SuccessOnlyAfterUpsert ==
    [][ \A w \in Workers :
          (pc[w] = "upsert" /\ pc'[w] = "idle")
          => LET t == cur[w].id
                 c == cur[w].args[1]
                 d == cur[w].args[2]
             IN  /\ store'[t].result = SyncSuccess(d)
                       => \E p \in qdrant'[c].points :
                              p.id = uuid5(d) /\ p.original_id = d
                 /\ hist'[t].fetch \in {"encode_raises", "store_unreachable"}
                       => /\ store'[t].result # SyncSuccess(d)
                          /\ qdrant' = qdrant ]_vars

\* C15 witness: a sync task has produced the success result and its point is stored.
C15_Witness ==
    \E t \in TaskIds :
        /\ sent[t].name = EmbedTask
        /\ store[t].result = SyncSuccess("job_102")
        /\ \E p \in qdrant["jobs"].points : p.id = uuid5("job_102") /\ p.original_id = "job_102"

C17_HandlersReturnErrors ==
    \A t \in TaskIds :
        hist[t].returned
            => /\ store[t].state = "SUCCESS"
               /\ hist[t].fetch \in FetchErrors \cup {"encode_raises", "store_unreachable"}
                     => "error" \in DOMAIN store[t].result
               /\ "error" \in DOMAIN store[t].result
                     => DOMAIN store[t].result
                            \cap {"status", "documentId", "model_dump_json"} = {}
               /\ "error" \notin DOMAIN store[t].result
                     => \/ \E d \in DocIds : store[t].result = SyncSuccess(d)
                        \/ DOMAIN store[t].result = {"model_dump_json"}

\* C17 witness: a handler whose store call failed has returned an error value.
C17_Witness ==
    \E t \in TaskIds :
        /\ hist[t].returned
        /\ hist[t].fetch = "store_unreachable"
        /\ store[t] = [state |-> "SUCCESS", result |-> [error |-> "ResponseHandlingException"]]

\* C18: an execution of create_embedding_task for (c, d) changes at most the
\* point of c whose id is derived from d: every other point, and every other
\* collection, is as before; a point's id is derived from its document id,
\* and different document ids have different point ids.
C18_OnlyOwnPointChanges ==
    [][ /\ \A w \in Workers :
              (pc[w] = "upsert" /\ pc'[w] = "idle")
              => \A c2 \in Collections :
                    /\ qdrant'[c2].exists = qdrant[c2].exists
                    /\ \A p \in (qdrant[c2].points \ qdrant'[c2].points)
                                   \cup (qdrant'[c2].points \ qdrant[c2].points) :
                           c2 = cur[w].args[1] /\ p.id = uuid5(cur[w].args[2])
        /\ \A c \in Collections : \A p \in qdrant'[c].points :
              /\ p.id = uuid5(p.original_id)
              /\ \A p2 \in qdrant'[c].points : p2.original_id # p.original_id => p2.id # p.id ]_vars

\* C18 witness: two sync tasks for different documents of "jobs" have
\* succeeded and "jobs" holds the point of each.
C18_Witness ==
    /\ \A t \in TaskIds : sent[t].name = EmbedTask /\ store[t].state = "SUCCESS"
    /\ PointsOf(qdrant, "jobs", "job_101") # {}
    /\ PointsOf(qdrant, "jobs", "job_102") # {}

\* C19: seed_database attempts each job of JOBS_DATA once, in list order; a
\* failed request does not stop the loop; the two counters add up to the
\* number of jobs attempted, which is len(JOBS_DATA) when the function ends.
C19_EveryJobAttemptedOnce ==
    /\ Len(seed.attempted) <= Len(JOBS_DATA)
    /\ seed.attempted = SubSeq(JOBS_DATA, 1, Len(seed.attempted))
    /\ seed.success_count + seed.failure_count = Len(seed.attempted)
    /\ seed.pc = "loop" => seed.i = Len(seed.attempted) + 1
    /\ seed.pc = "done" => Len(seed.attempted) = Len(JOBS_DATA)

\* C19 witness: the function has ended after requests that failed and
\* requests that succeeded.
C19_Witness ==
    /\ seed.pc = "done"
    /\ seed.failure_count > 0
    /\ seed.success_count > 0

====
